---- MODULE Spec2Model ----
(***************************************************************************)
(* A model of graph1.py: the age-bucket table AGE_BAR_DICT, the snapshot   *)
(* extraction of _get_all_data and the differencing and bar loops of       *)
(* _build_graph.                                                           *)
(*                                                                         *)
(* A pandas Series is a function from its index labels to its values; its  *)
(* index order is the sorted order of the labels (groupby sorts its keys   *)
(* and the union of two sorted indexes is sorted), given by LabelOrder.    *)
(* A pandas DataFrame is a sequence of records, one per CSV row.           *)
(***************************************************************************)
EXTENDS Integers, Sequences, FiniteSets, TLC

VARIABLES
    pc,        \* the statement the run is at
    call,      \* which _get_all_data call is active: "start" or "end"
    at_date,   \* call -> the at_date argument of that call
    date_iso,  \* call -> date_iso of that call, once computed
    iso_date,  \* call -> at_date.isoformat() of that call, once computed
    kind,      \* the resource p was read from
    p,         \* the DataFrame _get_data returned last
    fetched,   \* the <<call, series>> whose _get_data has returned
    data,      \* <<call, series>> -> the Series built for it
    counts,    \* series -> the differenced Series, once computed
    todo,      \* the keys the running for loop has still to visit
    age,       \* the loop variable
    resolved,  \* label -> what AGE_BAR_DICT[label] gave, for the lookups made
    bars,      \* the plot.barh calls made
    err        \* the exception that ended the run, "" while there is none

vars == <<pc, call, at_date, date_iso, iso_date, kind, p, fetched, data, counts,
          todo, age, resolved, bars, err>>

\* ------------------------------------------------------------------ dates

Date(y, m, d) == [year |-> y, month |-> m, day |-> d]

START_DATE == Date(2021, 3, 23)
END_DATE == Date(2022, 4, 5)

\* datetime._is_leap, _days_before_year, _days_before_month, _ymd2ord
IsLeap(y) == (y % 4 = 0) /\ ((y % 100 # 0) \/ (y % 400 = 0))

DaysBeforeYear(y) ==
    LET x == y - 1 IN x * 365 + (x \div 4) - (x \div 100) + (x \div 400)

DaysBeforeMonth(y, m) ==
    LET cum == <<0, 31, 59, 90, 120, 151, 181, 212, 243, 273, 304, 334>>
    IN cum[m] + (IF m > 2 /\ IsLeap(y) THEN 1 ELSE 0)

Ymd2Ord(y, m, d) == DaysBeforeYear(y) + DaysBeforeMonth(y, m) + d

\* datetime._isoweek1monday: the ordinal of the Monday that starts ISO week 1
IsoWeek1Monday(y) ==
    LET firstday == Ymd2Ord(y, 1, 1)
        firstweekday == (firstday + 6) % 7
        week1monday == firstday - firstweekday
    IN IF firstweekday > 3 THEN week1monday + 7 ELSE week1monday

\* date.isocalendar(at_date): <<ISO year, ISO week, ISO weekday>>
IsoCalendar(dt) ==
    LET today == Ymd2Ord(dt.year, dt.month, dt.day)
        off == today - IsoWeek1Monday(dt.year)
    IN IF off < 0
       THEN LET o2 == today - IsoWeek1Monday(dt.year - 1)
            IN <<dt.year - 1, (o2 \div 7) + 1, (o2 % 7) + 1>>
       ELSE IF (off \div 7) >= 52 /\ today >= IsoWeek1Monday(dt.year + 1)
            THEN <<dt.year + 1, 1, (off % 7) + 1>>
            ELSE <<dt.year, (off \div 7) + 1, (off % 7) + 1>>

\* ---------------------------------------------------------------- strings
\* A string is the sequence of its characters.

DigitChars == <<"0", "1", "2", "3", "4", "5", "6", "7", "8", "9">>

Chr(d) == DigitChars[d + 1]

Ord(c) == CHOOSE d \in 0..9 : DigitChars[d + 1] = c

\* str(n) of a non-negative integer: its decimal digits, no padding
RECURSIVE Str(_)
Str(n) == IF n < 10 THEN <<Chr(n)>> ELSE Str(n \div 10) \o <<Chr(n % 10)>>

\* int(s) of a string of decimal digits
RECURSIVE ParseInt(_)
ParseInt(s) ==
    IF Len(s) = 0 THEN 0
    ELSE ParseInt(SubSeq(s, 1, Len(s) - 1)) * 10 + Ord(s[Len(s)])

\* the digits of n, zero-padded on the left to the width w ("%04d", "%02d")
RECURSIVE Pad(_, _)
Pad(n, w) == IF w = 0 THEN <<>> ELSE Pad(n \div 10, w - 1) \o <<Chr(n % 10)>>

\* as DateIso, with the calendar year in place of the ISO year
DateIsoCalendarYear(dt) ==
    ParseInt(Str(dt.year) \o Str(IsoCalendar(dt)[2]))

\* date_iso = int(str(iso_calendar[0]) + str(iso_calendar[1]))
DateIso(dt) ==
    LET iso_calendar == IsoCalendar(dt)
    IN ParseInt(Str(iso_calendar[1]) \o Str(iso_calendar[2]))

\* at_date.isoformat(): "YYYY-MM-DD"
IsoFormat(dt) ==
    Pad(dt.year, 4) \o <<"-">> \o Pad(dt.month, 2) \o <<"-">> \o Pad(dt.day, 2)

\* --------------------------------------------------------------- registry

\* as AGE_BAR_DICT, with an interval of its own for "unknown"
AgeBarDictOwnUnknown ==
    ("0 - 9" :> <<0, 9>>) @@ ("10 - 19" :> <<10, 19>>) @@
    ("20 - 29" :> <<20, 29>>) @@ ("30 - 39" :> <<30, 39>>) @@
    ("40 - 49" :> <<40, 49>>) @@ ("50 - 59" :> <<50, 59>>) @@
    ("60 - 69" :> <<60, 69>>) @@ ("70 - 79" :> <<70, 79>>) @@
    ("80+" :> <<80, 89>>) @@ ("Unbekannt" :> <<90, 99>>) @@
    ("0 - 1" :> <<0, 1>>) @@ ("12 - 17" :> <<12, 17>>) @@
    ("18 - 44" :> <<18, 44>>) @@ ("2 - 11" :> <<2, 11>>) @@
    ("45 - 64" :> <<45, 64>>) @@ ("65 - 74" :> <<65, 74>>) @@
    ("75+" :> <<75, 89>>) @@ ("unknown" :> <<100, 109>>)

\* as AGE_BAR_DICT, with the open-ended "80+" given no upper bound of its own
AgeBarDictOpenTop ==
    ("0 - 9" :> <<0, 9>>) @@ ("10 - 19" :> <<10, 19>>) @@
    ("20 - 29" :> <<20, 29>>) @@ ("30 - 39" :> <<30, 39>>) @@
    ("40 - 49" :> <<40, 49>>) @@ ("50 - 59" :> <<50, 59>>) @@
    ("60 - 69" :> <<60, 69>>) @@ ("70 - 79" :> <<70, 79>>) @@
    ("80+" :> <<80, 80>>) @@ ("Unbekannt" :> <<90, 99>>) @@
    ("0 - 1" :> <<0, 1>>) @@ ("12 - 17" :> <<12, 17>>) @@
    ("18 - 44" :> <<18, 44>>) @@ ("2 - 11" :> <<2, 11>>) @@
    ("45 - 64" :> <<45, 64>>) @@ ("65 - 74" :> <<65, 74>>) @@
    ("75+" :> <<75, 89>>) @@ ("unknown" :> <<90, 99>>)

AGE_BAR_DICT ==
    ("0 - 9" :> <<0, 9>>) @@ ("10 - 19" :> <<10, 19>>) @@
    ("20 - 29" :> <<20, 29>>) @@ ("30 - 39" :> <<30, 39>>) @@
    ("40 - 49" :> <<40, 49>>) @@ ("50 - 59" :> <<50, 59>>) @@
    ("60 - 69" :> <<60, 69>>) @@ ("70 - 79" :> <<70, 79>>) @@
    ("80+" :> <<80, 89>>) @@ ("Unbekannt" :> <<90, 99>>) @@
    ("0 - 1" :> <<0, 1>>) @@ ("12 - 17" :> <<12, 17>>) @@
    ("18 - 44" :> <<18, 44>>) @@ ("2 - 11" :> <<2, 11>>) @@
    ("45 - 64" :> <<45, 64>>) @@ ("65 - 74" :> <<65, 74>>) @@
    ("75+" :> <<75, 89>>) @@ ("unknown" :> <<90, 99>>)

\* AGE_BAR_DICT[label]: the tuple, or <<>> where the lookup raises KeyError
Lookup(label) ==
    IF label \in DOMAIN AGE_BAR_DICT THEN AGE_BAR_DICT[label] ELSE <<>>

\* The labels of the model in the order Python sorts strings.
LabelOrder ==
    <<"0 - 1", "0 - 9", "10 - 19", "12 - 17", "18 - 44", "2 - 11", "20 - 29",
      "30 - 39", "40 - 49", "45 - 64", "50 - 59", "60 - 69", "65 - 74",
      "70 - 79", "75+", "80+", "Unbekannt", "all", "not-a-real-bucket",
      "unknown">>

\* Series.keys() of a Series with the index S, in index order
Keys(S) == SelectSeq(LabelOrder, LAMBDA l : l \in S)

Series == {"hosp", "death", "symptoms"}
Calls == {"start", "end"}

\* ------------------------------------------------------------- snapshots

\* p[mask].set_index(col)["sumTotal"]: the <<label, sumTotal>> of the rows kept
SetIndex(rows, col) == [i \in 1..Len(rows) |-> <<rows[i][col], rows[i].sumTotal>>]

\* as GroupBySum, with a later row of a label overwriting an earlier one
RECURSIVE GroupByLast(_)
GroupByLast(s) ==
    IF Len(s) = 0 THEN <<>>
    ELSE LET k == s[Len(s)][1]
             v == s[Len(s)][2]
         IN (k :> v) @@ GroupByLast(SubSeq(s, 1, Len(s) - 1))

\* .groupby(level=0).sum(): one entry per distinct label, the sum of its values
RECURSIVE GroupBySum(_)
GroupBySum(s) ==
    IF Len(s) = 0 THEN <<>>
    ELSE LET rest == GroupBySum(Tail(s))
             k == Head(s)[1]
             v == Head(s)[2]
         IN IF k \in DOMAIN rest
            THEN [rest EXCEPT ![k] = @ + v]
            ELSE (k :> v) @@ rest

\* the mask of death_data and hosp_data
WeeklyMask(r, iso) == r.datum = iso /\ r.geoRegion = "CHFL"

\* the mask of symptom_data
SymptomMask(r, isodate) ==
    /\ r.date = isodate
    /\ r.geoRegion = "CHFL"
    /\ r.vaccine = "all"
    /\ r.age_group # "all"
    /\ r.severity = "all"

WeeklyData(frame, iso) ==
    GroupBySum(SetIndex(SelectSeq(frame, LAMBDA r : WeeklyMask(r, iso)),
                        "altersklasse_covid19"))

SymptomData(frame, isodate) ==
    GroupBySum(SetIndex(SelectSeq(frame, LAMBDA r : SymptomMask(r, isodate)),
                        "age_group"))

\* the Series _get_all_data builds for the series s from the frame
SeriesData(s, frame, iso, dt) ==
    IF s = "symptoms" THEN SymptomData(frame, IsoFormat(dt))
    ELSE WeeklyData(frame, iso)

\* ------------------------------------------------------------ differences
\* A value of a differenced Series: a number, or NaN.

Num(n) == [nan |-> FALSE, val |-> n]
NaN == [nan |-> TRUE, val |-> 0]

\* x > 0 on such a value: False for NaN
Positive(x) == ~x.nan /\ x.val > 0

\* as Diff, adding where it should subtract
DiffAdd(e, s) ==
    [l \in DOMAIN e \cup DOMAIN s |->
        IF l \in DOMAIN e /\ l \in DOMAIN s
        THEN [nan |-> FALSE, val |-> e[l] + s[l]]
        ELSE [nan |-> TRUE, val |-> 0]]

\* e - s of two Series: pandas aligns them on the union of their indexes and
\* gives NaN where either side has no value
Diff(e, s) ==
    [l \in DOMAIN e \cup DOMAIN s |->
        IF l \in DOMAIN e /\ l \in DOMAIN s THEN Num(e[l] - s[l]) ELSE NaN]

\* ------------------------------------------------------------ the inputs

MaxCount == 2   \* sumTotal of a row of the run is in 1..MaxCount
MaxRows == 2    \* rows of a frame that the snapshot specification draws

\* The rows a CSV of the run may hold: the age classes each series reports,
\* a label AGE_BAR_DICT lacks among them, at either of the two dates.
RunLabels(s) ==
    IF s = "symptoms" THEN {"unknown", "not-a-real-bucket"}
    ELSE IF s = "death" THEN {"Unbekannt", "not-a-real-bucket"}
    ELSE {"Unbekannt", "80+"}

WeeklyRows(labels, regions, counts_) ==
    {[datum |-> DateIso(d), geoRegion |-> g, altersklasse_covid19 |-> l,
      sumTotal |-> n] :
        d \in {START_DATE, END_DATE}, g \in regions, l \in labels, n \in counts_}

SymptomRows(labels, regions, flags, counts_) ==
    {[date |-> IsoFormat(d), geoRegion |-> g, vaccine |-> f[1], age_group |-> l,
      severity |-> f[2], sumTotal |-> n] :
        d \in {START_DATE, END_DATE}, g \in regions, f \in flags, l \in labels,
        n \in counts_}

\* the frames of at most n rows over the row set R
FramesOver(R, n) == UNION {[1..k -> R] : k \in 0..n}

\* what pd.read_csv may return for the series s in a run
RunFrames(s) ==
    IF s = "symptoms"
    THEN FramesOver(SymptomRows(RunLabels(s), {"CHFL", "CH"}, {<<"all", "all">>},
                                1..MaxCount), 1)
    ELSE FramesOver(WeeklyRows(RunLabels(s), {"CHFL", "CH"}, 1..MaxCount), 1)

\* ---------------------------------------------------------------- the run

None == <<>>

Init ==
    /\ pc = "date_iso"
    /\ call = "start"
    /\ at_date = [c \in Calls |-> IF c = "start" THEN START_DATE ELSE END_DATE]
    /\ date_iso = None
    /\ iso_date = None
    /\ kind = ""
    /\ p = None
    /\ fetched = {}
    /\ data = None
    /\ counts = None
    /\ todo = <<>>
    /\ age = ""
    /\ resolved = None
    /\ bars = <<>>
    /\ err = ""

\* _get_all_data, lines 75-76
GetAllDataKey ==
    /\ pc = "date_iso"
    /\ date_iso' = (call :> DateIso(at_date[call])) @@ date_iso
    /\ pc' = "get_death"
    /\ UNCHANGED <<call, at_date, iso_date, kind, p, fetched, data, counts, todo,
                   age, resolved, bars, err>>

\* the statement after the Series of s is built
AfterData(s) ==
    IF s = "death" THEN "get_hosp"
    ELSE IF s = "hosp" THEN "get_symptoms" ELSE "return"

\* as GetData, with the HTTP error noted and an empty frame read instead
GetDataSwallow(s) ==
    /\ pc = "get_" \o s
    /\ \/ /\ err' = "HTTPError"
          /\ p' = <<>>
       \/ /\ \E frame \in RunFrames(s) : p' = frame
          /\ err' = err
    /\ kind' = s
    /\ fetched' = fetched \cup {<<call, s>>}
    /\ pc' = s \o "_data"
    /\ UNCHANGED <<call, at_date, date_iso, iso_date, data, counts, todo, age,
                   resolved, bars>>

\* p = _get_data(resource): raise_for_status raises, or read_csv gives a frame
GetData(s) ==
    /\ pc = "get_" \o s
    /\ \/ /\ err' = "HTTPError"
          /\ pc' = "raised"
          /\ UNCHANGED <<kind, p, fetched>>
       \/ /\ \E frame \in RunFrames(s) : p' = frame
          /\ kind' = s
          /\ fetched' = fetched \cup {<<call, s>>}
          /\ pc' = s \o "_data"
          /\ err' = err
    /\ UNCHANGED <<call, at_date, date_iso, iso_date, data, counts, todo, age,
                   resolved, bars>>

\* death_data, hosp_data, symptom_data: filter, set_index, groupby, sum
BuildData(s) ==
    /\ pc = s \o "_data"
    /\ data' = (<<call, s>> :> SeriesData(s, p, date_iso[call], at_date[call]))
               @@ data
    /\ iso_date' = IF s = "symptoms"
                   THEN (call :> IsoFormat(at_date[call])) @@ iso_date
                   ELSE iso_date
    /\ pc' = AfterData(s)
    /\ UNCHANGED <<call, at_date, date_iso, kind, p, fetched, counts, todo, age,
                   resolved, bars, err>>

\* return CovidData(hosp_data, death_data, symptom_data)
ReturnData ==
    /\ pc = "return"
    /\ p' = None
    /\ kind' = ""
    /\ IF call = "start"
       THEN call' = "end" /\ pc' = "date_iso"
       ELSE call' = call /\ pc' = "counts"
    /\ UNCHANGED <<at_date, date_iso, iso_date, fetched, data, counts, todo, age,
                   resolved, bars, err>>

\* counts = CovidData(end.hosp - start.hosp, ...), then the figure is set up
\* and the first loop starts
Counts ==
    /\ pc = "counts"
    /\ counts' = [s \in Series |-> Diff(data[<<"end", s>>], data[<<"start", s>>])]
    /\ todo' = Keys(DOMAIN counts'["death"])
    /\ pc' = "death_loop"
    /\ UNCHANGED <<call, at_date, date_iso, iso_date, kind, p, fetched, data, age,
                   resolved, bars, err>>

Bar(s, label, y, n) ==
    [series |-> s, age |-> label, y |-> y[1], height |-> y[2] - y[1], count |-> n]

\* one pass of "for age in counts.death.keys()", lines 116-146
DeathPass ==
    /\ pc = "death_loop"
    /\ todo # <<>>
    /\ LET a == Head(todo)
           y == Lookup(a)
           death_count == counts["death"][a]
           drawn == IF Positive(death_count)
                    THEN Append(bars, Bar("death", a, y, death_count.val))
                    ELSE bars
       IN /\ age' = a
          /\ resolved' = (a :> y) @@ resolved
          /\ IF y = <<>>
             THEN \* line 118 raises KeyError
                  /\ err' = "KeyError" /\ pc' = "raised"
                  /\ UNCHANGED <<bars, todo>>
             ELSE IF a \notin DOMAIN counts["hosp"]
             THEN \* line 132 raises KeyError
                  /\ err' = "KeyError" /\ pc' = "raised"
                  /\ bars' = drawn
                  /\ UNCHANGED todo
             ELSE /\ bars' = IF Positive(counts["hosp"][a])
                             THEN Append(drawn,
                                         Bar("hosp", a, y, counts["hosp"][a].val))
                             ELSE drawn
                  /\ todo' = Tail(todo)
                  /\ UNCHANGED <<pc, err>>
    /\ UNCHANGED <<call, at_date, date_iso, iso_date, kind, p, fetched, data,
                   counts>>

\* the death loop is over: "for age in counts.symptoms.keys()" starts
DeathLoopEnd ==
    /\ pc = "death_loop"
    /\ todo = <<>>
    /\ todo' = Keys(DOMAIN counts["symptoms"])
    /\ pc' = "symptom_loop"
    /\ UNCHANGED <<call, at_date, date_iso, iso_date, kind, p, fetched, data,
                   counts, age, resolved, bars, err>>

\* one pass of "for age in counts.symptoms.keys()", lines 147-162
SymptomPass ==
    /\ pc = "symptom_loop"
    /\ todo # <<>>
    /\ LET a == Head(todo)
           count == counts["symptoms"][a]
           y == Lookup(a)
       IN /\ age' = a
          /\ IF ~Positive(count)
             THEN /\ todo' = Tail(todo)
                  /\ UNCHANGED <<resolved, bars, pc, err>>
             ELSE /\ resolved' = (a :> y) @@ resolved
                  /\ IF y = <<>>
                     THEN \* line 150 raises KeyError
                          /\ err' = "KeyError" /\ pc' = "raised"
                          /\ UNCHANGED <<bars, todo>>
                     ELSE /\ bars' = Append(bars, Bar("symptoms", a, y, count.val))
                          /\ todo' = Tail(todo)
                          /\ UNCHANGED <<pc, err>>
    /\ UNCHANGED <<call, at_date, date_iso, iso_date, kind, p, fetched, data,
                   counts>>

\* lines 163-201: axes, legend, plt.show()
Show ==
    /\ pc = "symptom_loop"
    /\ todo = <<>>
    /\ pc' = "done"
    /\ UNCHANGED <<call, at_date, date_iso, iso_date, kind, p, fetched, data,
                   counts, todo, age, resolved, bars, err>>

Next ==
    \/ GetAllDataKey
    \/ \E s \in Series : GetData(s)
    \/ \E s \in Series : BuildData(s)
    \/ ReturnData
    \/ Counts
    \/ DeathPass
    \/ DeathLoopEnd
    \/ SymptomPass
    \/ Show

Spec == Init /\ [][Next]_vars

\* --------------------------------------------- snapshot of one frame alone

SnapCounts == {5, 7}
SnapFlags == {<<"all", "all">>, <<"moderna", "all">>, <<"all", "serious">>}

\* the frames the snapshot specification draws for the series s
SnapFrames(s) ==
    IF s = "symptoms"
    THEN FramesOver(SymptomRows({"30 - 39", "all"}, {"CHFL", "CH"}, SnapFlags,
                                SnapCounts), MaxRows)
    ELSE FramesOver(WeeklyRows({"30 - 39", "0 - 9"}, {"CHFL", "CH"}, SnapCounts),
                    MaxRows)

InitSnap ==
    /\ pc = "snap"
    /\ call = "start"
    /\ \E d \in {START_DATE, END_DATE} : at_date = [c \in Calls |-> d]
    /\ kind \in Series
    /\ p \in SnapFrames(kind)
    /\ date_iso = None
    /\ iso_date = None
    /\ fetched = {}
    /\ data = None
    /\ counts = None
    /\ todo = <<>>
    /\ age = ""
    /\ resolved = None
    /\ bars = <<>>
    /\ err = ""

\* lines 75-76 and the Series of the one frame p, as _get_all_data builds it
SnapshotAt ==
    /\ pc = "snap"
    /\ date_iso' = (call :> DateIso(at_date[call])) @@ date_iso
    /\ iso_date' = (call :> IsoFormat(at_date[call])) @@ iso_date
    /\ data' = (<<call, kind>> :>
                   SeriesData(kind, p, date_iso'[call], at_date[call])) @@ data
    /\ pc' = "snapped"
    /\ UNCHANGED <<call, at_date, kind, p, fetched, counts, todo, age, resolved,
                   bars, err>>

SpecSnap == InitSnap /\ [][SnapshotAt]_vars

\* ----------------------------------------------------- the keys of two dates

\* START_DATE and END_DATE, a second day of START_DATE's week, two days of
\* one ISO week in different calendar years, two days of a one-digit ISO
\* week and two days of one week of a three-digit year.
Dates ==
    {START_DATE, END_DATE, Date(2021, 3, 24), Date(2021, 1, 3),
     Date(2020, 12, 28), Date(2021, 1, 4), Date(2021, 1, 10), Date(202, 3, 15),
     Date(202, 3, 16)}

InitKey ==
    /\ pc = "keys"
    /\ call = "start"
    /\ at_date \in [Calls -> Dates]
    /\ date_iso = None
    /\ iso_date = None
    /\ kind = ""
    /\ p = None
    /\ fetched = {}
    /\ data = None
    /\ counts = None
    /\ todo = <<>>
    /\ age = ""
    /\ resolved = None
    /\ bars = <<>>
    /\ err = ""

\* the two keys _get_all_data(at_date) selects rows by, for one call
DateKeys ==
    /\ pc = "keys"
    /\ date_iso' = (call :> DateIso(at_date[call])) @@ date_iso
    /\ iso_date' = (call :> IsoFormat(at_date[call])) @@ iso_date
    /\ IF call = "start"
       THEN call' = "end" /\ pc' = pc
       ELSE call' = call /\ pc' = "keyed"
    /\ UNCHANGED <<at_date, kind, p, fetched, data, counts, todo, age, resolved,
                   bars, err>>

SpecKey == InitKey /\ [][DateKeys]_vars

\* ================================================================ properties

Start(s) == data[<<"start", s>>]
End(s) == data[<<"end", s>>]
DiffDone == DOMAIN counts # {}

SameSeries(a, b) == DOMAIN a = DOMAIN b /\ \A l \in DOMAIN a : a[l] = b[l]

RECURSIVE SumOver(_, _)
SumOver(I, f) ==
    IF I = {} THEN 0
    ELSE LET i == CHOOSE j \in I : TRUE IN f[i] + SumOver(I \ {i}, f)

\* C1 (as claimed): every label of the end snapshot has the difference
\* end[label] - start[label], with start[label] taken as 0 where the start
\* snapshot has no such label.
C1_DiffValues ==
    DiffDone =>
        \A s \in Series : \A l \in DOMAIN End(s) :
            /\ l \in DOMAIN counts[s]
            /\ counts[s][l] =
                 Num(End(s)[l] - (IF l \in DOMAIN Start(s) THEN Start(s)[l] ELSE 0))

\* C2 (as claimed): the labels of the differenced series are exactly the
\* labels of the end snapshot.
C2_DiffDomain ==
    DiffDone => \A s \in Series : DOMAIN counts[s] = DOMAIN End(s)

\* The rows of p that the claim counts for the snapshot: region exactly CHFL
\* and the date or week key equal to the requested key.
RowKey(r) == IF kind = "symptoms" THEN r.date ELSE r.datum
RowLabel(r) == IF kind = "symptoms" THEN r.age_group ELSE r.altersklasse_covid19
Requested == IF kind = "symptoms" THEN iso_date[call] ELSE date_iso[call]
ClaimedRows ==
    {i \in 1..Len(p) : p[i].geoRegion = "CHFL" /\ RowKey(p[i]) = Requested}
\* For the symptom series the rows must also be the per-age-group rows over
\* all vaccines and all severities.
CountedRows ==
    {i \in ClaimedRows :
        kind = "symptoms" =>
            p[i].vaccine = "all" /\ p[i].age_group # "all" /\ p[i].severity = "all"}

SnapshotIs(I) ==
    LET snap == data[<<call, kind>>]
    IN /\ DOMAIN snap = {RowLabel(p[i]) : i \in I}
       /\ \A l \in DOMAIN snap :
            snap[l] = SumOver({i \in I : RowLabel(p[i]) = l},
                              [i \in 1..Len(p) |-> p[i].sumTotal])

\* C3 (as claimed): for every series, the snapshot maps exactly the labels
\* with a row of region CHFL and the requested key, each to the sum of
\* sumTotal over those rows.
C3_SnapshotAllRows == pc = "snapped" => SnapshotIs(ClaimedRows)

\* C3 (amended): the same, where for the symptom series only the rows with
\* vaccine "all", severity "all" and an age_group other than "all" count.
C3_Snapshot == pc = "snapped" => SnapshotIs(CountedRows)

\* C3 witness: a snapshot built from a frame in which one label has two
\* counted rows, of the counts 5 and 7, and maps that label to 12.
C3_Witness ==
    /\ pc = "snapped"
    /\ \E i, j \in CountedRows : i # j /\ RowLabel(p[i]) = RowLabel(p[j])
    /\ data[<<call, kind>>][RowLabel(p[1])] = 12

AllLabels == UNION {DOMAIN counts[s] : s \in Series}

\* C4 (as claimed): a run never completes while a label of a differenced
\* series is absent from AGE_BAR_DICT.
C4_UnresolvedIsLoud ==
    pc = "done" => \A l \in AllLabels : l \in DOMAIN AGE_BAR_DICT

\* C5 (as claimed): when some snapshot is empty and every label that occurs
\* is in AGE_BAR_DICT, the run raises nothing.
C5_MissingDataNotFatal ==
    (/\ DiffDone
     /\ \E k \in DOMAIN data : DOMAIN data[k] = {}
     /\ \A l \in AllLabels : l \in DOMAIN AGE_BAR_DICT)
    => pc # "raised"

\* C6 (as claimed): the lookups of "Unbekannt" and "unknown" succeed with
\* two different intervals, and the lookup of a label not in the table fails.
C6_DistinctSentinels ==
    /\ {"Unbekannt", "unknown"} \subseteq DOMAIN resolved =>
          /\ resolved["Unbekannt"] # <<>>
          /\ resolved["unknown"] # <<>>
          /\ resolved["Unbekannt"] # resolved["unknown"]
    /\ "not-a-real-bucket" \in DOMAIN resolved =>
          resolved["not-a-real-bucket"] = <<>>

\* C6 (amended): the lookups of "Unbekannt" and "unknown" succeed and give
\* the same interval (90, 99); the lookup of a label not in the table gives
\* no bucket and ends the run with a KeyError.
C6_Sentinels ==
    \A l \in DOMAIN resolved :
        /\ l \in {"Unbekannt", "unknown"} => resolved[l] = <<90, 99>>
        /\ l = "not-a-real-bucket" =>
              resolved[l] = <<>> /\ pc = "raised" /\ err = "KeyError"

\* C6 witness: a run that has looked up both sentinels.
C6_Witness ==
    /\ {"Unbekannt", "unknown"} \subseteq DOMAIN resolved
    /\ resolved["Unbekannt"] = resolved["unknown"]

SameIsoWeek(d1, d2) ==
    /\ IsoCalendar(d1)[1] = IsoCalendar(d2)[1]
    /\ IsoCalendar(d1)[2] = IsoCalendar(d2)[2]

\* C7 (as claimed): two dates have the same weekly key exactly when they lie
\* in the same ISO year and ISO week, and the same symptom key exactly when
\* they are the same day.
C7_DateKeying ==
    pc = "keyed" =>
        /\ (date_iso["start"] = date_iso["end"])
             <=> SameIsoWeek(at_date["start"], at_date["end"])
        /\ (iso_date["start"] = iso_date["end"])
             <=> (at_date["start"] = at_date["end"])

IsoYearDigits(d) == Len(Str(IsoCalendar(d)[1]))

\* C7 (amended): two dates of one ISO year and ISO week have the same weekly
\* key; two dates whose ISO years have the same number of digits (any two
\* dates from the year 1000 on) and that have the same weekly key lie in the
\* same ISO year and ISO week; and two dates have the same symptom key exactly
\* when they are the same day.
C7_DateKeys ==
    pc = "keyed" =>
        /\ SameIsoWeek(at_date["start"], at_date["end"])
              => date_iso["start"] = date_iso["end"]
        /\ (/\ IsoYearDigits(at_date["start"]) = IsoYearDigits(at_date["end"])
            /\ date_iso["start"] = date_iso["end"])
              => SameIsoWeek(at_date["start"], at_date["end"])
        /\ (iso_date["start"] = iso_date["end"])
             <=> (at_date["start"] = at_date["end"])

\* C7 witness: two days of one ISO week in different calendar years, with
\* the same weekly key and different symptom keys.
C7_Witness ==
    /\ pc = "keyed"
    /\ at_date["start"].year # at_date["end"].year
    /\ SameIsoWeek(at_date["start"], at_date["end"])
    /\ date_iso["start"] = date_iso["end"]
    /\ iso_date["start"] # iso_date["end"]

\* C8 (as claimed): no snapshot exists before all three series are fetched,
\* and a failed fetch ends the run with no comparison.
C8_FetchBeforeCompute ==
    /\ DOMAIN data # {} =>
          \A s \in Series : \E c \in Calls : <<c, s>> \in fetched
    /\ err = "HTTPError" => pc = "raised" /\ ~DiffDone

\* C8 (amended): a snapshot of a series is built only after the fetch of
\* that same series in that call has returned; the fetch of the next series
\* starts only after the snapshot of the one before is built; a failed
\* fetch ends the run with the error and no comparison.
C8_FetchThenBuild ==
    /\ \A k \in DOMAIN data : k \in fetched
    /\ \A c \in Calls :
          /\ <<c, "hosp">> \in fetched => <<c, "death">> \in DOMAIN data
          /\ <<c, "symptoms">> \in fetched => <<c, "hosp">> \in DOMAIN data
    /\ err = "HTTPError" => pc = "raised" /\ ~DiffDone /\ bars = <<>>

\* C8 witness: a fetch fails after the death snapshot of the start date is
\* built and before the symptom series is fetched.
C8_Witness ==
    /\ err = "HTTPError"
    /\ <<"start", "death">> \in DOMAIN data
    /\ <<"start", "symptoms">> \notin fetched

\* C9: a series whose start and end snapshots are equal has, in the
\* difference, exactly the labels of that snapshot, each with the value 0.
C9_NoChange ==
    DiffDone =>
        \A s \in Series :
            SameSeries(Start(s), End(s)) =>
                /\ DOMAIN counts[s] = DOMAIN End(s)
                /\ \A l \in DOMAIN counts[s] : counts[s][l] = Num(0)

\* C9 witness: a difference of two equal, non-empty snapshots.
C9_Witness ==
    /\ DiffDone
    /\ \E s \in Series : SameSeries(Start(s), End(s)) /\ DOMAIN End(s) # {}

\* C10: every entry of AGE_BAR_DICT has low < high, "80+" and "75+" end at
\* 89, and every height a run divides by, of a bar drawn or not, is positive.
C10_WellFormed ==
    /\ \A l \in DOMAIN AGE_BAR_DICT : AGE_BAR_DICT[l][1] < AGE_BAR_DICT[l][2]
    /\ AGE_BAR_DICT["80+"][2] = 89
    /\ AGE_BAR_DICT["75+"][2] = 89
    /\ \A l \in DOMAIN resolved :
          resolved[l] # <<>> => resolved[l][2] - resolved[l][1] > 0
    /\ \A i \in 1..Len(bars) : bars[i].height > 0

\* C10 witness: a run that has drawn a bar and has also divided the count of a
\* death label by its height without drawing a bar for it.
C10_Witness ==
    /\ Len(bars) > 0
    /\ \E l \in DOMAIN resolved \cap DOMAIN counts["death"] :
          resolved[l] # <<>> /\ ~Positive(counts["death"][l])

====
